---- MODULE Spec2Model ----
(***************************************************************************)
(* genericsync.py: DataSync.sync_data / add_to_ago / prepare_data.         *)
(*                                                                         *)
(* A column name is the sequence of its pieces, e.g. "survey_year" is      *)
(* <<"surve", "y", "_y", "ear">> ... every occurrence of the substrings    *)
(* the code searches for ("_x", "_y", "date", "time", "note") is a piece   *)
(* of its own, so that `'_y' in name` is membership of the piece and       *)
(* str.replace('_x', '') is deletion of the piece.  A text value is the    *)
(* sequence of its characters.  A DataFrame is [columns, rows], a row      *)
(* being the sequence of its values in column order (pandas allows         *)
(* duplicate column labels, and the code can produce them).                *)
(***************************************************************************)
EXTENDS Integers, Sequences, FiniteSets, TLC

VARIABLES
    table,            \* the database table read by fetch_db_data
    service,          \* the feature service: the name, type, fields, features of its layer
    key_columns,      \* sync_data's key_columns argument
    run,              \* which invocation of sync_data this is
    pc,               \* where sync_data / add_to_ago stands
    err,              \* the exception that ended the run, or "none"
    ago_data, db_data, merged, records_to_add,      \* sync_data's locals
    features_to_add, i, results, result, added,     \* add_to_ago's locals
    returned,         \* what add_to_ago returned
    edit_calls,       \* every layer.edit_features call made so far: run, chunk, outcome
    p_pc, p_arg, p_spatial, p_data, p_err           \* a call of prepare_data

vars == <<table, service, key_columns, run, pc, err, ago_data, db_data, merged,
          records_to_add, features_to_add, i, results, result, added, returned,
          edit_calls, p_pc, p_arg, p_spatial, p_data, p_err>>

syncVars == <<table, service, key_columns, run, pc, err, ago_data, db_data, merged,
              records_to_add, features_to_add, i, results, result, added, returned,
              edit_calls>>

prepVars == <<p_pc, p_arg, p_spatial, p_data, p_err>>

------------------------------------------------------------------------------
(* Bounds of the model. *)
MaxKey == 3          \* key values are 1..MaxKey in the small collections
MaxDbLen == 3        \* rows of a small table
MaxAgoLen == 2       \* features of a small layer
MaxChunks == 2       \* bulk tables hold up to MaxChunks * chunk_size + Slack rows
Slack == 1           \* bulk sizes lie within Slack of a multiple of chunk_size
MaxPrepRows == 2     \* rows of a collection prepare_data is called on

(* add_to_ago: chunk_size = 100 *)
chunk_size == 100

------------------------------------------------------------------------------
(* Sequences. *)
Range(s) == {s[n] : n \in DOMAIN s}

Indices(s) == [n \in 1..Len(s) |-> n]

IndexOf(s, x) == CHOOSE n \in DOMAIN s : s[n] = x /\ \A m \in 1..(n - 1) : s[m] # x

LastIndexOf(s, x) == CHOOSE n \in DOMAIN s : s[n] = x /\ \A m \in (n + 1)..Len(s) : s[m] # x

Pick(s, idx) == [n \in 1..Len(idx) |-> s[idx[n]]]

RECURSIVE FlattenRange(_, _, _)
FlattenRange(ss, lo, hi) ==
    IF lo > hi THEN <<>>
    ELSE IF lo = hi THEN ss[lo]
    ELSE FlattenRange(ss, lo, (lo + hi) \div 2) \o FlattenRange(ss, (lo + hi) \div 2 + 1, hi)

Flatten(ss) == FlattenRange(ss, 1, Len(ss))

Min(a, b) == IF a < b THEN a ELSE b

------------------------------------------------------------------------------
(* Values of a cell. *)
None == [t |-> "null", v |-> "None"]       \* Python None
NaN == [t |-> "null", v |-> "nan"]         \* pandas' missing value
Num(n) == [t |-> "int", v |-> n]
Str(s) == [t |-> "str", v |-> s]           \* s: the characters
Ts(n) == [t |-> "ts", v |-> n]             \* a timestamp object
Pt(x, y) == [t |-> "dict", v |-> [x |-> x, y |-> y]]   \* a geometry {x, y}
Ind(s) == [t |-> "cat", v |-> s]           \* a value of merge's indicator column

IsNull(val) == val.t = "null"

(* Column names. *)
c_id == <<"id">>
c_site == <<"site">>
c_count == <<"count">>
c_name == <<"name">>
c_notes == <<"note", "s">>
c_obs_date == <<"obs", "_", "date">>
c_survey_year == <<"surve", "y", "_y", "ear">>
c_pos_x == <<"pos", "_x">>
c_objectid == <<"objectid">>
c_geometry == <<"geometry">>
c_merge == <<"_merge">>

Contains(name, piece) == piece \in Range(name)

------------------------------------------------------------------------------
(* pd.merge(left, right, how='outer', on=keys, indicator=True) *)
KeyOf(frame, keys, row) == [k \in 1..Len(keys) |-> row[IndexOf(frame.columns, keys[k])]]

KeysOf(frame, keys) == {KeyOf(frame, keys, frame.rows[n]) : n \in 1..Len(frame.rows)}

RECURSIVE KeyLess(_, _)
KeyLess(a, b) ==
    IF a = <<>> \/ b = <<>> THEN FALSE
    ELSE IF Head(a).v < Head(b).v THEN TRUE
    ELSE IF Head(b).v < Head(a).v THEN FALSE
    ELSE KeyLess(Tail(a), Tail(b))

MissingKeys(left, right, keys) ==
    {k \in Range(keys) : k \notin Range(left.columns) \/ k \notin Range(right.columns)}

Overlap(left, right, keys) ==
    (Range(left.columns) \cap Range(right.columns)) \ Range(keys)

RightRest(right, keys) ==
    SelectSeq(Indices(right.columns), LAMBDA n : right.columns[n] \notin Range(keys))

MergedColumns(left, right, keys) ==
    [n \in 1..Len(left.columns) |->
        IF left.columns[n] \in Overlap(left, right, keys)
        THEN Append(left.columns[n], "_x") ELSE left.columns[n]]
    \o [n \in 1..Len(RightRest(right, keys)) |->
        LET c == right.columns[RightRest(right, keys)[n]]
        IN  IF c \in Overlap(left, right, keys) THEN Append(c, "_y") ELSE c]
    \o <<c_merge>>

JoinBoth(left, right, keys, lrow, rrow) ==
    lrow \o Pick(rrow, RightRest(right, keys)) \o <<Ind("both")>>

JoinLeft(left, right, keys, lrow) ==
    lrow \o [n \in 1..Len(RightRest(right, keys)) |-> NaN] \o <<Ind("left_only")>>

JoinRight(left, right, keys, rrow) ==
    [n \in 1..Len(left.columns) |->
        IF left.columns[n] \in Range(keys)
        THEN rrow[IndexOf(right.columns, left.columns[n])] ELSE NaN]
    \o Pick(rrow, RightRest(right, keys)) \o <<Ind("right_only")>>

(* the joined rows before they are put in key order: the left rows in order, each
   with its matches in right order, then the right rows that match nothing *)
Joined(left, right, keys) ==
    LET rk == [n \in 1..Len(right.rows) |-> KeyOf(right, keys, right.rows[n])]
        lks == KeysOf(left, keys)
        rks == Range(rk)
        ofLeft(lrow) ==
            LET k == KeyOf(left, keys, lrow)
            IN  IF k \notin rks THEN <<JoinLeft(left, right, keys, lrow)>>
                ELSE LET m == SelectSeq(Indices(right.rows), LAMBDA n : rk[n] = k)
                     IN  [n \in 1..Len(m) |-> JoinBoth(left, right, keys, lrow, right.rows[m[n]])]
        rightOnly == SelectSeq(Indices(right.rows), LAMBDA n : rk[n] \notin lks)
    IN  Flatten([n \in 1..Len(left.rows) |-> ofLeft(left.rows[n])])
        \o [n \in 1..Len(rightOnly) |-> JoinRight(left, right, keys, right.rows[rightOnly[n]])]

(* InKeyOrder that keeps the first row of each key only *)
InKeyOrder_unique(rows, keyIdx) ==
    LET key == [n \in 1..Len(rows) |-> Pick(rows[n], keyIdx)]
        order == SortSeq(Indices(rows),
                    LAMBDA a, b : KeyLess(key[a], key[b]) \/ (key[a] = key[b] /\ a < b))
        firsts == SelectSeq(Indices(order),
                    LAMBDA n : n = 1 \/ key[order[n]] # key[order[n - 1]])
    IN  Pick(rows, Pick(order, firsts))

(* an outer join sorts the keys; rows of one key keep their order *)
InKeyOrder(rows, keyIdx) ==
    LET key == [n \in 1..Len(rows) |-> Pick(rows[n], keyIdx)]
    IN  Pick(rows, SortSeq(Indices(rows),
                LAMBDA a, b : KeyLess(key[a], key[b]) \/ (key[a] = key[b] /\ a < b)))

Merge(left, right, keys) ==
    LET cols == MergedColumns(left, right, keys)
        keyIdx == [k \in 1..Len(keys) |-> IndexOf(cols, keys[k])]
    IN  [columns |-> cols, rows |-> InKeyOrder(Joined(left, right, keys), keyIdx)]

------------------------------------------------------------------------------
(* DataFrame helpers used by sync_data's output shaping. *)
SelectCols(frame, idx) ==
    [columns |-> Pick(frame.columns, idx),
     rows |-> [n \in 1..Len(frame.rows) |-> Pick(frame.rows[n], idx)]]

(* LeftOnly with the filter on the other side: 'right_only' *)
LeftOnly_right(m) ==
    LET at == IndexOf(m.columns, c_merge)
        kept == [columns |-> m.columns,
                 rows |-> SelectSeq(m.rows, LAMBDA r : r[at] = Ind("right_only"))]
    IN  SelectCols(kept, SelectSeq(Indices(m.columns), LAMBDA n : m.columns[n] # c_merge))

(* LeftOnly with the filter too wide: every row that has a left side *)
LeftOnly_both(m) ==
    LET at == IndexOf(m.columns, c_merge)
        kept == [columns |-> m.columns,
                 rows |-> SelectSeq(m.rows, LAMBDA r : r[at] # Ind("right_only"))]
    IN  SelectCols(kept, SelectSeq(Indices(m.columns), LAMBDA n : m.columns[n] # c_merge))

(* merged[merged['_merge'] == 'left_only'].drop('_merge', axis=1) *)
LeftOnly(m) ==
    LET at == IndexOf(m.columns, c_merge)
        kept == [columns |-> m.columns,
                 rows |-> SelectSeq(m.rows, LAMBDA r : r[at] = Ind("left_only"))]
    IN  SelectCols(kept, SelectSeq(Indices(m.columns), LAMBDA n : m.columns[n] # c_merge))

(* frame[frame.columns.drop(list(frame.filter(regex='_y')))] *)
DropY(frame) ==
    SelectCols(frame, SelectSeq(Indices(frame.columns),
                                LAMBDA n : ~Contains(frame.columns[n], "_y")))

(* frame.columns = frame.columns.str.replace('_x', '') *)
StripX(name) == SelectSeq(name, LAMBDA piece : piece # "_x")

RenameX(frame) ==
    [columns |-> [n \in 1..Len(frame.columns) |-> StripX(frame.columns[n])],
     rows |-> frame.rows]

(* frame[cols]: every label must exist; a label carried by several columns selects
   them all *)
MissingLabels(frame, cols) == {c \in Range(cols) : c \notin Range(frame.columns)}

Project(frame, cols) ==
    SelectCols(frame,
        Flatten([n \in 1..Len(cols) |->
            SelectSeq(Indices(frame.columns), LAMBDA m : frame.columns[m] = cols[n])]))

Shaped(m) == RenameX(DropY(LeftOnly(m)))

IsEmpty(frame) == Len(frame.rows) = 0 \/ Len(frame.columns) = 0

EmptyFrame == [columns |-> <<>>, rows |-> <<>>]

------------------------------------------------------------------------------
(* add_to_ago *)
(* row.drop(['geometry'], errors='ignore').to_dict(): of the columns that carry one
   label the last one's value is the label's *)
ToDict(columns, row) ==
    [c \in Range(columns) \ {c_geometry} |-> row[LastIndexOf(columns, c)]]

Feature(attributes) == [attributes |-> attributes, geometry |-> None]

FeaturesOf(data) ==
    [n \in 1..Len(data.rows) |-> Feature(ToDict(data.columns, data.rows[n]))]

(* Chunk with the slice one short: features_to_add[i:i + chunk_size - 1] *)
Chunk_short(features, at) ==
    SubSeq(features, at + 1, Min(at + chunk_size - 1, Len(features)))

(* features_to_add[i:i + chunk_size], i counted from 0 *)
Chunk(features, at) == SubSeq(features, at + 1, Min(at + chunk_size, Len(features)))

NoResult == [addResults |-> <<>>]

(* The feature service: gis.content.get(fs_id).layers + .tables, a sequence of
   [name, type, fields, features]; a feature is [attributes, geometry]. *)
ago_layer == "sites"

FindLayer(svc, layer_name) == SelectSeq(Indices(svc), LAMBDA n : svc[n].name = layer_name)

(* what the layer stores of an added feature: its own fields, the object id its own *)
Stored(layer, feature, k) ==
    [attributes |->
        [f \in Range(layer.fields) |->
            IF f = c_objectid THEN Num(Len(layer.features) + k)
            ELSE IF f \in DOMAIN feature.attributes THEN feature.attributes[f]
            ELSE None],
     geometry |-> feature.geometry]

(* layer.edit_features(adds=chunk) that accepts the first `accepted` features *)
AfterEdit(layer, chunk, accepted) ==
    [layer EXCEPT !.features =
        @ \o [k \in 1..accepted |-> Stored(layer, chunk[k], k)]]

EditResult(chunk, accepted) ==
    [addResults |-> [k \in 1..Len(chunk) |-> k <= accepted]]

(* layer.query(where="1=1", out_fields="*", return_geometry=True).features as a
   DataFrame, with the geometry column unless the layer is a table *)
QueryFrame(layer) ==
    LET cols == IF layer.features = <<>> THEN <<>> ELSE layer.fields
        spatial == layer.type # "Table"
    IN  [columns |-> IF spatial THEN Append(cols, c_geometry) ELSE cols,
         rows |-> [n \in 1..Len(layer.features) |->
                    LET attrs == [k \in 1..Len(cols) |-> layer.features[n].attributes[cols[k]]]
                    IN  IF spatial THEN Append(attrs, layer.features[n].geometry) ELSE attrs]]

------------------------------------------------------------------------------
(* The collections the runs start from.  A row is built from <<id, site>> and its
   position j in the collection. *)
DbVal(col, id, site, j) ==
    CASE col = c_id -> Num(id)
      [] col = c_site -> Num(site)
      [] col = c_count -> Num(j)
      [] col = c_name -> IF j % 2 = 0 THEN None ELSE Str(<<"a">>)
      [] col = c_notes -> Str(<<"<", "b", ">", "h">>)
      [] col = c_obs_date -> Ts(id)
      [] col = c_geometry -> Str(<<"0", "1">>)
      [] OTHER -> Num(id)

TableOf(schema, specs) ==
    [columns |-> schema,
     rows |-> [j \in 1..Len(specs) |->
                [c \in 1..Len(schema) |-> DbVal(schema[c], specs[j][1], specs[j][2], j)]]]

AgoVal(field, id, site, j) ==
    CASE field = c_id -> Num(id)
      [] field = c_site -> Num(site)
      [] field = c_objectid -> Num(j)
      [] field = c_count -> Num(j + 10)
      [] field = c_name -> Str(<<"b">>)
      [] OTHER -> None

LayerOf(name, type, fields, specs) ==
    [name |-> name, type |-> type, fields |-> fields,
     features |-> [j \in 1..Len(specs) |->
        [attributes |-> [f \in Range(fields) |-> AgoVal(f, specs[j][1], specs[j][2], j)],
         geometry |-> IF type # "Table" /\ j % 2 = 1 THEN Pt(specs[j][1], j) ELSE None]]]

SeqsUpTo(S, n) == UNION {[1..m -> S] : m \in 0..n}

NonDecreasing(s) == \A n \in 1..(Len(s) - 1) : s[n] <= s[n + 1]

WithSite(ids, site) == [j \in 1..Len(ids) |-> <<ids[j], site>>]

DbPlain == <<c_id, c_site, c_count>>
AgoPlain == <<c_objectid, c_id, c_site, c_count>>

DbSchemas ==
    {DbPlain, <<c_id, c_name, c_notes, c_obs_date>>, <<c_id, c_survey_year>>,
     <<c_id, c_pos_x>>, <<c_id, c_count, c_geometry>>, <<c_site, c_count>>}

AgoSchemas ==
    {AgoPlain, <<c_objectid, c_id, c_name>>, <<c_objectid, c_site>>,
     <<c_objectid, c_id, c_pos_x>>, <<c_objectid, c_id, Append(c_count, "_x")>>}

BulkSizes ==
    {n \in {c * chunk_size + d : c \in 0..MaxChunks, d \in (0 - Slack)..Slack} : n > MaxDbLen}

Idle ==
    /\ p_pc = "idle" /\ p_arg = EmptyFrame /\ p_spatial = FALSE
    /\ p_data = EmptyFrame /\ p_err = "none"

Fresh ==
    /\ pc = "start" /\ err = "none" /\ run = "first"
    /\ ago_data = EmptyFrame /\ db_data = EmptyFrame /\ merged = EmptyFrame
    /\ records_to_add = EmptyFrame /\ features_to_add = <<>> /\ i = 0
    /\ results = <<>> /\ result = NoResult /\ added = 0 /\ returned = NoResult
    /\ edit_calls = <<>>

(* small collections on the plain schemas, any keys, duplicates among them, in key
   order *)
InitSmall ==
    \E d \in {s \in SeqsUpTo(1..MaxKey, MaxDbLen) : NonDecreasing(s)} :
    \E a \in {s \in SeqsUpTo(1..MaxKey, MaxAgoLen) : NonDecreasing(s)} :
        /\ table = TableOf(DbPlain, WithSite(d, 1))
        /\ service = <<LayerOf(ago_layer, "Feature Layer", AgoPlain, WithSite(a, 1))>>
        /\ key_columns = <<c_id>>

(* the schemas, layer names and types, one or two key columns, a table out of key
   order *)
InitSchemas ==
    \E ds \in DbSchemas, fs \in AgoSchemas, nm \in {ago_layer, "other"} :
    \E ty \in {"Table", "Feature Layer"}, kc \in {<<c_id>>, <<c_id, c_site>>} :
    \E a \in {<<>>, <<<<2, 1>>>>} :
        /\ table = TableOf(ds, <<<<2, 1>>, <<1, 1>>, <<2, 2>>>>)
        /\ service = <<LayerOf(nm, ty, fs, a)>>
        /\ key_columns = kc

(* tables of about a multiple of chunk_size rows with keys 1..n, and a layer that
   holds none or one of them *)
InitBulk ==
    \E n \in BulkSizes, a \in {<<0>>, <<0, 1>>} :
        /\ table = TableOf(<<c_id, c_count>>, WithSite([j \in 1..n |-> j], 1))
        /\ service = <<LayerOf(ago_layer, "Table", <<c_objectid, c_id>>,
                               WithSite(a, 1))>>
        /\ key_columns = <<c_id>>

Init == /\ (InitSmall \/ InitSchemas \/ InitBulk) /\ Fresh /\ Idle

------------------------------------------------------------------------------
(* sync_data *)
fetch_ago_data ==
    /\ pc = "start"
    /\ LET found == FindLayer(service, ago_layer)
       IN  IF found = <<>>
           THEN /\ pc' = "error" /\ err' = "ValueError" /\ UNCHANGED ago_data
           ELSE /\ pc' = "fetched_ago" /\ ago_data' = QueryFrame(service[found[1]])
                /\ UNCHANGED err
    /\ UNCHANGED <<table, service, key_columns, run, db_data, merged, records_to_add,
                   features_to_add, i, results, result, added, returned, edit_calls>>
    /\ UNCHANGED prepVars

fetch_db_data ==
    /\ pc = "fetched_ago"
    /\ db_data' = table
    /\ pc' = "fetched_db"
    /\ UNCHANGED <<table, service, key_columns, run, err, ago_data, merged,
                   records_to_add, features_to_add, i, results, result, added, returned,
                   edit_calls>>
    /\ UNCHANGED prepVars

(* pd_merge that joins without its key check: with a key column missing on the
   right every left row comes out left_only *)
pd_merge_unchecked ==
    /\ pc = "fetched_db"
    /\ IF MissingKeys(db_data, ago_data, key_columns) = {}
       THEN merged' = Merge(db_data, ago_data, key_columns)
       ELSE merged' =
                [columns |-> db_data.columns \o ago_data.columns \o <<c_merge>>,
                 rows |-> [n \in 1..Len(db_data.rows) |->
                            db_data.rows[n] \o [c \in 1..Len(ago_data.columns) |-> NaN]
                            \o <<Ind("left_only")>>]]
    /\ pc' = "merged"
    /\ UNCHANGED <<table, service, key_columns, run, err, ago_data, db_data,
                   records_to_add, features_to_add, i, results, result, added, returned,
                   edit_calls>>
    /\ UNCHANGED prepVars

pd_merge ==
    /\ pc = "fetched_db"
    /\ IF MissingKeys(db_data, ago_data, key_columns) # {}
       THEN /\ pc' = "error" /\ err' = "KeyError(on)" /\ UNCHANGED merged
       ELSE /\ pc' = "merged" /\ merged' = Merge(db_data, ago_data, key_columns)
            /\ UNCHANGED err
    /\ UNCHANGED <<table, service, key_columns, run, ago_data, db_data, records_to_add,
                   features_to_add, i, results, result, added, returned, edit_calls>>
    /\ UNCHANGED prepVars

select_records ==
    /\ pc = "merged"
    /\ IF MissingLabels(Shaped(merged), db_data.columns) # {}
       THEN /\ pc' = "error" /\ err' = "KeyError(columns)" /\ UNCHANGED records_to_add
       ELSE /\ pc' = "selected"
            /\ records_to_add' = Project(Shaped(merged), db_data.columns)
            /\ UNCHANGED err
    /\ UNCHANGED <<table, service, key_columns, run, ago_data, db_data, merged,
                   features_to_add, i, results, result, added, returned, edit_calls>>
    /\ UNCHANGED prepVars

no_new_records ==
    /\ pc = "selected"
    /\ IsEmpty(records_to_add)
    /\ pc' = "done"
    /\ UNCHANGED <<table, service, key_columns, run, err, ago_data, db_data, merged,
                   records_to_add, features_to_add, i, results, result, added, returned,
                   edit_calls>>
    /\ UNCHANGED prepVars

(* add_to_ago, up to its loop *)
add_to_ago ==
    /\ pc = "selected"
    /\ ~IsEmpty(records_to_add)
    /\ features_to_add' = FeaturesOf(records_to_add)
    /\ results' = <<>> /\ added' = 0 /\ i' = 0
    /\ pc' = "loop"
    /\ UNCHANGED <<table, service, key_columns, run, err, ago_data, db_data, merged,
                   records_to_add, result, returned, edit_calls>>
    /\ UNCHANGED prepVars

(* how many features of a chunk the layer may accept: all, none, or the first only *)
Acceptances(chunk) == {0, 1, Len(chunk)}

NextOffset(at) == at + chunk_size

(* edit_features that leaves the loop when the layer did not accept the whole chunk *)
edit_features_break ==
    /\ pc = "loop"
    /\ i < Len(features_to_add)
    /\ LET chunk == Chunk(features_to_add, i)
           at == FindLayer(service, ago_layer)[1]
       IN  \E accepted \in Acceptances(chunk) :
            /\ service' = [service EXCEPT ![at] = AfterEdit(@, chunk, accepted)]
            /\ result' = EditResult(chunk, accepted)
            /\ results' = Append(results, EditResult(chunk, accepted))
            /\ added' = added + Len(chunk)
            /\ edit_calls' = Append(edit_calls,
                    [run |-> run, chunk |-> chunk, accepted |-> accepted, raised |-> FALSE])
            /\ i' = IF accepted < Len(chunk) THEN Len(features_to_add) ELSE NextOffset(i)
    /\ UNCHANGED <<table, key_columns, run, pc, err, ago_data, db_data, merged,
                   records_to_add, features_to_add, returned>>
    /\ UNCHANGED prepVars

(* one pass of the loop in which layer.edit_features returns *)
edit_features ==
    /\ pc = "loop"
    /\ i < Len(features_to_add)
    /\ LET chunk == Chunk(features_to_add, i)
           at == FindLayer(service, ago_layer)[1]
       IN  \E accepted \in Acceptances(chunk) :
            /\ service' = [service EXCEPT ![at] = AfterEdit(@, chunk, accepted)]
            /\ result' = EditResult(chunk, accepted)
            /\ results' = Append(results, EditResult(chunk, accepted))
            /\ added' = added + Len(chunk)
            /\ edit_calls' = Append(edit_calls,
                    [run |-> run, chunk |-> chunk, accepted |-> accepted, raised |-> FALSE])
    /\ i' = NextOffset(i)
    /\ UNCHANGED <<table, key_columns, run, pc, err, ago_data, db_data, merged,
                   records_to_add, features_to_add, returned>>
    /\ UNCHANGED prepVars

(* one pass of the loop in which layer.edit_features raises *)
edit_features_raises ==
    /\ pc = "loop"
    /\ i < Len(features_to_add)
    /\ edit_calls' = Append(edit_calls,
            [run |-> run, chunk |-> Chunk(features_to_add, i), accepted |-> 0,
             raised |-> TRUE])
    /\ pc' = "error" /\ err' = "Exception(edit_features)"
    /\ UNCHANGED <<table, service, key_columns, run, ago_data, db_data, merged,
                   records_to_add, features_to_add, i, results, result, added, returned>>
    /\ UNCHANGED prepVars

return_result ==
    /\ pc = "loop"
    /\ i >= Len(features_to_add)
    /\ returned' = result
    /\ pc' = "done"
    /\ UNCHANGED <<table, service, key_columns, run, err, ago_data, db_data, merged,
                   records_to_add, features_to_add, i, results, result, added, edit_calls>>
    /\ UNCHANGED prepVars

(* the script is run a second time on the same table and the layer as it now is *)
sync_again ==
    /\ pc \in {"done", "error"}
    /\ run = "first"
    /\ run' = "again"
    /\ pc' = "start" /\ err' = "none"
    /\ ago_data' = EmptyFrame /\ db_data' = EmptyFrame /\ merged' = EmptyFrame
    /\ records_to_add' = EmptyFrame /\ features_to_add' = <<>> /\ i' = 0
    /\ results' = <<>> /\ result' = NoResult /\ added' = 0 /\ returned' = NoResult
    /\ UNCHANGED <<table, service, key_columns, edit_calls>>
    /\ UNCHANGED prepVars

Next ==
    \/ fetch_ago_data
    \/ fetch_db_data
    \/ pd_merge
    \/ select_records
    \/ no_new_records
    \/ add_to_ago
    \/ edit_features
    \/ edit_features_raises
    \/ return_result
    \/ sync_again

Spec == Init /\ [][Next]_vars

------------------------------------------------------------------------------
(* prepare_data *)
RECURSIVE Digits(_)
Digits(n) ==
    IF n < 10 THEN <<<<"0", "1", "2", "3", "4", "5", "6", "7", "8", "9">>[n + 1]>>
    ELSE Digits(n \div 10) \o Digits(n % 10)

(* str(x) and Series.astype(str): the text of a value.  A timestamp's text is
   written "T" and its number, a dict's text its braces and entries. *)
AsStr(val) ==
    CASE val.t = "str" -> val
      [] val.t = "null" -> Str(IF val.v = "None" THEN <<"N", "o", "n", "e">> ELSE <<"n", "a", "n">>)
      [] val.t = "int" -> Str(Digits(val.v))
      [] val.t = "ts" -> Str(<<"T">> \o Digits(val.v))
      [] OTHER -> Str(<<"{", "}">>)

(* re.sub(r'<[^>]*>', '', text): from a "<" up to the next ">" goes, a "<" that no
   ">" follows stays *)
RECURSIVE StripTags(_)
StripTags(chars) ==
    IF chars = <<>> THEN <<>>
    ELSE IF Head(chars) = "<" /\ \E q \in 2..Len(chars) : chars[q] = ">"
    THEN LET q == CHOOSE q \in 2..Len(chars) :
                    chars[q] = ">" /\ \A m \in 2..(q - 1) : chars[m] # ">"
         IN  StripTags(SubSeq(chars, q + 1, Len(chars)))
    ELSE <<Head(chars)>> \o StripTags(Tail(chars))

(* date_cols ... data[col] = data[col].astype(str) *)
DateCols(data) == {c \in Range(data.columns) : Contains(c, "date") \/ Contains(c, "time")}

(* data.fillna('', inplace=True) *)
FillNa(val) == IF IsNull(val) THEN Str(<<>>) ELSE val

(* data[col].apply(lambda x: re.sub(r'<[^>]*>', '', str(x))) for the 'note' columns *)
NoteCols(data) == {c \in Range(data.columns) : Contains(c, "note")}

StripNote(val) == Str(StripTags(AsStr(val).v))

(* convert_geometry: Point(geometry['x'], geometry['y']) as hex WKB; the byte order
   and type "0101000000", then the two coordinates, here by their digits.  A value
   that is no dict cannot be subscripted by 'x'; a dict may lack the entry. *)
GeometryError(geometry) ==
    IF geometry.t # "dict" THEN "TypeError"
    ELSE IF ~({"x", "y"} \subseteq DOMAIN geometry.v) THEN "KeyError"
    ELSE "none"

convert_geometry(geometry) ==
    Str(<<"0", "1", "0", "1", "0", "0", "0", "0", "0", "0">>
        \o Digits(geometry.v.x) \o <<",">> \o Digits(geometry.v.y))

(* data[col] = data[col].astype(str) / .apply(...), and fillna, on the columns cols *)
Applied(step, val) ==
    CASE step = "astype(str)" -> AsStr(val)
      [] step = "fillna" -> FillNa(val)
      [] step = "re.sub" -> StripNote(val)
      [] step = "convert_geometry" -> convert_geometry(val)

MapColumns(data, cols, step) ==
    [columns |-> data.columns,
     rows |-> [n \in 1..Len(data.rows) |->
                [c \in 1..Len(data.columns) |->
                    IF data.columns[c] \in cols
                    THEN Applied(step, data.rows[n][c]) ELSE data.rows[n][c]]]]

StringifyDates(data) == MapColumns(data, DateCols(data), "astype(str)")

FillAll(data) == MapColumns(data, Range(data.columns), "fillna")

StripNotes(data) == MapColumns(data, NoteCols(data), "re.sub")

GeometryColumn(data) == [n \in 1..Len(data.rows) |-> data.rows[n][IndexOf(data.columns, c_geometry)]]

(* the first geometry that convert_geometry raises on ends the apply *)
FirstGeometryError(data) ==
    LET g == GeometryColumn(data)
        bad == {n \in 1..Len(g) : GeometryError(g[n]) # "none"}
    IN  IF bad = {} THEN "none"
        ELSE GeometryError(g[CHOOSE n \in bad : \A m \in bad : n <= m])

ConvertGeometries(data) == MapColumns(data, {c_geometry}, "convert_geometry")

(* The collections prepare_data is called on. *)
PrepSchemas ==
    {<<c_id, c_notes, c_obs_date, c_geometry>>, <<c_id, c_notes, c_obs_date>>,
     <<c_id, c_name, c_geometry>>}

PrepNotes == {Str(<<"<", "b", ">", "h", "<", "/", "b", ">", "w">>), Str(<<"a", "<", "b">>), None}
PrepDates == {Ts(1), None}
PrepGeometries == {Pt(1, 2), None, [t |-> "dict", v |-> [x |-> 1]]}

PrepVal(col, n, note, date, geometry) ==
    CASE col = c_notes -> note
      [] col = c_obs_date -> date
      [] col = c_geometry -> geometry
      [] col = c_name -> IF n % 2 = 0 THEN NaN ELSE Str(<<"a">>)
      [] OTHER -> Num(n)

InitPrepare ==
    /\ \E schema \in PrepSchemas, len \in 0..MaxPrepRows :
       \E notes \in [1..len -> PrepNotes], dates \in [1..len -> PrepDates] :
       \E geometries \in [1..len -> PrepGeometries] :
            p_arg = [columns |-> schema,
                     rows |-> [n \in 1..len |->
                        [c \in 1..Len(schema) |->
                            PrepVal(schema[c], n, notes[n], dates[n], geometries[n])]]]
    /\ p_spatial \in BOOLEAN
    /\ p_pc = "call" /\ p_data = EmptyFrame /\ p_err = "none"
    /\ table = EmptyFrame /\ service = <<>> /\ key_columns = <<>>
    /\ pc = "idle" /\ err = "none" /\ run = "first"
    /\ ago_data = EmptyFrame /\ db_data = EmptyFrame /\ merged = EmptyFrame
    /\ records_to_add = EmptyFrame /\ features_to_add = <<>> /\ i = 0
    /\ results = <<>> /\ result = NoResult /\ added = 0 /\ returned = NoResult
    /\ edit_calls = <<>>

(* data = data.copy() and the date columns *)
prepare_dates ==
    /\ p_pc = "call"
    /\ p_data' = StringifyDates(p_arg)
    /\ p_pc' = "fillna"
    /\ UNCHANGED <<p_arg, p_spatial, p_err>>
    /\ UNCHANGED syncVars

prepare_fillna ==
    /\ p_pc = "fillna"
    /\ p_data' = FillAll(p_data)
    /\ p_pc' = "notes"
    /\ UNCHANGED <<p_arg, p_spatial, p_err>>
    /\ UNCHANGED syncVars

prepare_notes ==
    /\ p_pc = "notes"
    /\ p_data' = StripNotes(p_data)
    /\ p_pc' = "geometry"
    /\ UNCHANGED <<p_arg, p_spatial, p_err>>
    /\ UNCHANGED syncVars

prepare_geometry ==
    /\ p_pc = "geometry"
    /\ IF p_spatial /\ c_geometry \in Range(p_data.columns)
       THEN IF FirstGeometryError(p_data) # "none"
            THEN /\ p_pc' = "raised" /\ p_err' = FirstGeometryError(p_data)
                 /\ UNCHANGED p_data
            ELSE /\ p_pc' = "return" /\ p_data' = ConvertGeometries(p_data)
                 /\ UNCHANGED p_err
       ELSE /\ p_pc' = "return" /\ UNCHANGED <<p_data, p_err>>
    /\ UNCHANGED <<p_arg, p_spatial>>
    /\ UNCHANGED syncVars

prepare_return ==
    /\ p_pc = "return"
    /\ p_pc' = "returned"
    /\ UNCHANGED <<p_arg, p_spatial, p_data, p_err>>
    /\ UNCHANGED syncVars

NextPrepare ==
    \/ prepare_dates
    \/ prepare_fillna
    \/ prepare_notes
    \/ prepare_geometry
    \/ prepare_return

SpecPrepare == InitPrepare /\ [][NextPrepare]_vars

------------------------------------------------------------------------------
(* What the properties below speak of. *)
ThisRunCalls == SelectSeq(edit_calls, LAMBDA c : c.run = run)

FirstRunCalls == SelectSeq(edit_calls, LAMBDA c : c.run = "first")

(* sync_data has computed its delivery set; neither it nor the two fetched
   collections change in the rest of the run *)
DeliverySetComputed == pc = "selected"

DeliverySetKnown == pc \in {"selected", "loop", "done"}

JoinDone == pc \in {"merged", "selected", "loop", "done"}

(* no two rows of the frame have the same key *)
UniqueKeys(frame, keys) == Cardinality(KeysOf(frame, keys)) = Len(frame.rows)

Count(seq, v) == Cardinality({n \in 1..Len(seq) : seq[n] = v})

Ceil(n, c) == (n + c - 1) \div c

(* a row of the delivery set on the table's columns *)
OnColumns(frame, row, cols) == [c \in 1..Len(cols) |-> row[IndexOf(frame.columns, cols[c])]]

DeliveredRows ==
    [n \in 1..Len(records_to_add.rows) |->
        OnColumns(records_to_add, records_to_add.rows[n], db_data.columns)]

TableOnlyRows ==
    SelectSeq(db_data.rows,
        LAMBDA r : KeyOf(db_data, key_columns, r) \notin KeysOf(ago_data, key_columns))

(* the first run's delivery went through: every chunk submitted returned, and was
   accepted whole *)
FirstRunDelivered ==
    \A n \in 1..Len(FirstRunCalls) :
        ~FirstRunCalls[n].raised /\ FirstRunCalls[n].accepted = Len(FirstRunCalls[n].chunk)

(* the features the layer accepted, over all runs *)
AcceptedFeatures ==
    Flatten([n \in 1..Len(edit_calls) |-> SubSeq(edit_calls[n].chunk, 1, edit_calls[n].accepted)])

FeatureKey(feature) == [k \in 1..Len(key_columns) |-> feature.attributes[key_columns[k]]]

(* a duplicate key in either fetched collection *)
HasDuplicateKeys ==
    /\ MissingKeys(db_data, ago_data, key_columns) = {}
    /\ ~UniqueKeys(db_data, key_columns) \/ ~UniqueKeys(ago_data, key_columns)

(* a normalized collection: no null, the date and time columns text, no tag left in
   a note column *)
HasTag(chars) == StripTags(chars) # chars

Normalized(data) ==
    \A n \in 1..Len(data.rows), c \in 1..Len(data.columns) :
        /\ ~IsNull(data.rows[n][c])
        /\ data.columns[c] \in DateCols(data) => data.rows[n][c].t = "str"
        /\ data.columns[c] \in NoteCols(data)
            => (data.rows[n][c].t = "str" /\ ~HasTag(data.rows[n][c].v))

(* the geometry prepare_data was given for row n, and the one it made of it *)
ArgGeometry(n) == p_arg.rows[n][IndexOf(p_arg.columns, c_geometry)]

OutGeometry(n) == p_data.rows[n][IndexOf(p_data.columns, c_geometry)]

------------------------------------------------------------------------------
(* C1, as amended: with unique keys on both sides, the delivery set sync_data
   computes holds exactly the records whose key occurs in the table (the left
   operand, db_data) and not in the layer (the right operand, ago_data), each as the
   table has it; it is empty when every key of the table occurs in the layer, and a
   record whose key occurs only in the layer is never in it. *)
C1_DeliveryIsTableMinusLayer ==
    (DeliverySetComputed /\ UniqueKeys(db_data, key_columns) /\ UniqueKeys(ago_data, key_columns))
    => /\ KeysOf(records_to_add, key_columns)
            = KeysOf(db_data, key_columns) \ KeysOf(ago_data, key_columns)
       /\ UniqueKeys(records_to_add, key_columns)
       /\ Range(DeliveredRows) \subseteq Range(db_data.rows)
       /\ (KeysOf(db_data, key_columns) \subseteq KeysOf(ago_data, key_columns)
            => records_to_add.rows = <<>>)
       /\ KeysOf(records_to_add, key_columns)
            \cap (KeysOf(ago_data, key_columns) \ KeysOf(db_data, key_columns)) = {}

(* table keys {1,2,3}, layer keys {1,2}: the delivery set is the record with key 3 *)
C1_Witness ==
    /\ pc = "selected" /\ run = "first"
    /\ KeysOf(db_data, key_columns) = {<<Num(1)>>, <<Num(2)>>, <<Num(3)>>}
    /\ KeysOf(ago_data, key_columns) = {<<Num(1)>>, <<Num(2)>>}
    /\ Len(db_data.rows) = 3 /\ Len(ago_data.rows) = 2
    /\ KeysOf(records_to_add, key_columns) = {<<Num(3)>>}

(* C1 as stated: the delivery set holds exactly the keys of the layer (S) that are
   not in the table (D). *)
C1_AsStated ==
    (DeliverySetComputed /\ UniqueKeys(db_data, key_columns) /\ UniqueKeys(ago_data, key_columns))
    => KeysOf(records_to_add, key_columns)
            = KeysOf(ago_data, key_columns) \ KeysOf(db_data, key_columns)

------------------------------------------------------------------------------
(* C2, as amended: the chunks are submitted to layer.edit_features once each and in
   order; a submission that returns, whatever it reports (none, some or all of the
   chunk accepted), is followed by the next chunk's, so that add_to_ago returns only
   after all of them; a submission that raises is the run's last, and ends it with
   that exception. *)
C2_ChunksSubmittedPastReportedFailure ==
    /\ \A n \in 1..Len(ThisRunCalls) :
        /\ ThisRunCalls[n].chunk = Chunk(features_to_add, (n - 1) * chunk_size)
        /\ ThisRunCalls[n].raised => n = Len(ThisRunCalls)
    /\ pc = "loop" => Len(ThisRunCalls) = Ceil(Min(i, Len(features_to_add)), chunk_size)
    /\ (pc = "done" /\ features_to_add # <<>>)
        => /\ Len(ThisRunCalls) = Ceil(Len(features_to_add), chunk_size)
           /\ \A n \in 1..Len(ThisRunCalls) : ~ThisRunCalls[n].raised
    /\ (ThisRunCalls # <<>> /\ ThisRunCalls[Len(ThisRunCalls)].raised)
        <=> (pc = "error" /\ err = "Exception(edit_features)")

(* three chunks, the second rejected whole, the third submitted and accepted *)
C2_Witness ==
    /\ pc = "done" /\ Len(ThisRunCalls) = 3
    /\ ThisRunCalls[1].accepted = Len(ThisRunCalls[1].chunk)
    /\ ThisRunCalls[2].accepted = 0
    /\ ThisRunCalls[3].accepted = Len(ThisRunCalls[3].chunk)

(* C2 as stated: whatever happens to a submission, a raised error included, the
   run does not end before every chunk is submitted. *)
C2_AsStated ==
    (pc \in {"done", "error"} /\ features_to_add # <<>>)
    => Len(ThisRunCalls) = Ceil(Len(features_to_add), chunk_size)

------------------------------------------------------------------------------
(* C3: the loop of add_to_ago, run to its end over N records, submits ceil(N / C)
   chunks; record p (from 0, in delivery-set order) is the (p mod C)-th of chunk
   floor(p / C); every chunk but the last has C records, and the chunks together
   hold N. *)
C3_Chunking ==
    /\ pc \in {"loop", "done"} => Len(features_to_add) = Len(records_to_add.rows)
    /\ (pc = "done" /\ features_to_add # <<>>)
        => /\ Len(ThisRunCalls) = Ceil(Len(records_to_add.rows), chunk_size)
           /\ \A p \in 0..(Len(features_to_add) - 1) :
                /\ (p \div chunk_size) + 1 \in 1..Len(ThisRunCalls)
                /\ (p % chunk_size) + 1 \in 1..Len(ThisRunCalls[(p \div chunk_size) + 1].chunk)
                /\ ThisRunCalls[(p \div chunk_size) + 1].chunk[(p % chunk_size) + 1]
                        = features_to_add[p + 1]
           /\ \A n \in 1..(Len(ThisRunCalls) - 1) : Len(ThisRunCalls[n].chunk) = chunk_size
           /\ Len(Flatten([n \in 1..Len(ThisRunCalls) |-> ThisRunCalls[n].chunk]))
                = Len(features_to_add)

(* 2 * C + 1 records: chunks of C, C and 1 *)
C3_Witness ==
    /\ pc = "done" /\ Len(features_to_add) = 2 * chunk_size + 1
    /\ Len(ThisRunCalls) = 3
    /\ Len(ThisRunCalls[3].chunk) = 1

------------------------------------------------------------------------------
(* C4: when the first run's delivery went through (every chunk submitted and
   accepted whole), the second run, on the layer as it then is and the unchanged
   table, computes an empty delivery set and makes no edit_features call; and over
   both runs the layer never accepts more records of a key than the table holds. *)
C4_SecondRunDeliversNothing ==
    /\ (run = "again" /\ FirstRunDelivered)
        => /\ DeliverySetComputed => records_to_add.rows = <<>>
           /\ pc # "loop" /\ features_to_add = <<>>
           /\ ThisRunCalls = <<>>
    /\ pc = "loop" =>
       LET accepted == [n \in 1..Len(AcceptedFeatures) |-> FeatureKey(AcceptedFeatures[n])]
           held == [n \in 1..Len(table.rows) |-> KeyOf(table, key_columns, table.rows[n])]
       IN  \/ accepted = <<>>
           \/ IF Cardinality(Range(accepted)) = Len(accepted)
              THEN Range(accepted) \subseteq Range(held)
              ELSE \A k \in Range(accepted) : Count(accepted, k) <= Count(held, k)

(* a first run that delivered two records, and the second run at its end *)
C4_Witness ==
    /\ run = "again" /\ pc = "done" /\ FirstRunDelivered
    /\ Len(AcceptedFeatures) = 2
    /\ records_to_add.rows = <<>>

------------------------------------------------------------------------------
(* C5: a run in which the layer is not found, or a key column is missing from one
   of the two fetched collections, ends in that error with no edit_features call
   and no delivery set; the missing key never reaches the join. *)
C5_LookupAndKeyErrorsBeforeAnyWrite ==
    /\ err \in {"ValueError", "KeyError(on)"}
        => /\ pc = "error" /\ ThisRunCalls = <<>>
           /\ merged = EmptyFrame /\ records_to_add = EmptyFrame /\ features_to_add = <<>>
    /\ (FindLayer(service, ago_layer) = <<>> /\ pc # "start")
        => (pc = "error" /\ err = "ValueError")
    /\ (pc \notin {"start", "fetched_ago", "fetched_db"}
            /\ MissingKeys(db_data, ago_data, key_columns) # {})
        => (pc = "error" /\ err \in {"ValueError", "KeyError(on)"})

(* a table with rows and a layer with a feature, a key column in one of them only *)
C5_Witness ==
    /\ pc = "error" /\ err = "KeyError(on)"
    /\ db_data.rows # <<>> /\ ago_data.rows # <<>>
    /\ edit_calls = <<>>

------------------------------------------------------------------------------
(* C6: the join only ever sees normalized collections: no null, the date and time
   columns text, no tag left in a note column. *)
C6_JoinSeesNormalizedData ==
    JoinDone => (Normalized(db_data) /\ Normalized(ago_data))

------------------------------------------------------------------------------
(* C7: what add_to_ago returns holds one result for each submitted chunk, in
   submission order. *)
C7_ReturnsEveryChunkResult ==
    (pc = "done" /\ features_to_add # <<>>)
    => /\ <<returned>> = results
       /\ Len(results) = Len(ThisRunCalls)

------------------------------------------------------------------------------
(* C8, as amended: sync_data does not look for duplicate keys.  With two records of
   one key in either collection the join is computed all the same, and the delivery
   set holds each table record whose key the layer lacks once, the records that
   share such a key all of them, and no other record. *)
C8_DuplicatesAreDelivered ==
    (DeliverySetComputed /\ HasDuplicateKeys)
    => LET delivered == DeliveredRows
           expected == TableOnlyRows
       IN  /\ Len(delivered) = Len(expected)
           /\ \A r \in Range(expected) : Count(delivered, r) = Count(expected, r)

(* two table records of key 3, which the layer lacks, both submitted *)
C8_Witness ==
    /\ pc = "done" /\ run = "first"
    /\ Count([n \in 1..Len(db_data.rows) |-> KeyOf(db_data, key_columns, db_data.rows[n])],
             <<Num(3)>>) = 2
    /\ Len(ThisRunCalls) = 1
    /\ Count([n \in 1..Len(ThisRunCalls[1].chunk) |-> FeatureKey(ThisRunCalls[1].chunk[n])],
             <<Num(3)>>) = 2

(* C8 as stated: with a duplicate key in either collection no join is computed, no
   delivery set produced and nothing written. *)
C8_AsStated ==
    (pc \notin {"start", "fetched_ago", "fetched_db"} /\ HasDuplicateKeys)
    => (pc = "error" /\ ThisRunCalls = <<>>)

------------------------------------------------------------------------------
(* C9: once the join is computed the output shaping never fails, and the delivery
   set's columns are exactly the table's, in the table's order. *)
C9_ShapingYieldsTableColumns ==
    /\ err # "KeyError(columns)"
    /\ DeliverySetKnown => records_to_add.columns = db_data.columns

------------------------------------------------------------------------------
(* C10: prepare_data(data, spatial=True) does not raise on a null geometry: it
   returns, the null geometries empty or null, the others encoded from their point. *)
C10_NullGeometryDoesNotRaise ==
    (/\ p_pc \in {"raised", "returned"} /\ p_spatial
     /\ c_geometry \in Range(p_arg.columns)
     /\ \A n \in 1..Len(p_arg.rows) : IsNull(ArgGeometry(n)) \/ GeometryError(ArgGeometry(n)) = "none")
    => /\ p_pc = "returned" /\ p_err = "none"
       /\ \A n \in 1..Len(p_arg.rows) :
            IF IsNull(ArgGeometry(n))
            THEN OutGeometry(n) = Str(<<>>) \/ IsNull(OutGeometry(n))
            ELSE OutGeometry(n) = convert_geometry(ArgGeometry(n))

====
